---- MODULE Spec2Model ----
(***************************************************************************)
(* Model of bin/index.js, the Park.me project setup script: a sequential   *)
(* pipeline prompt -> (overwrite?) -> clone -> data -> config -> install  *)
(* -> Tomcat check.  Strings are TLA+ strings handled character by         *)
(* character with Len, SubSeq and \o; the file system is a function from   *)
(* absolute paths to entries.                                              *)
(***************************************************************************)
EXTENDS Integers, Sequences, FiniteSets, TLC

VARIABLES pc, isWindows, answer, projectName, overwrite, fs, template,
          console, exitCode

vars == <<pc, isWindows, answer, projectName, overwrite, fs, template,
          console, exitCode>>

(***************************************************************************)
(* Bounds and inputs                                                       *)
(***************************************************************************)
\* Largest number of placeholder lines in a configuration template.
MaxPieces == 3

\* What the user may type at the project-name prompt ("" = just Enter).
ProjectNameInputs == {"", "p", "p$$q", "p$&", "p$'"}

(***************************************************************************)
(* Strings                                                                 *)
(***************************************************************************)
CharAt(s, i) == SubSeq(s, i, i)

\* The positions at which pat occurs in s.
Occurrences(s, pat) ==
    {i \in 1..(Len(s) - Len(pat) + 1) : SubSeq(s, i, i + Len(pat) - 1) = pat}

\* String.prototype.indexOf, 1-based: the position of the first occurrence
\* of pat in s, 0 when there is none.
indexOf(s, pat) ==
    LET hits == Occurrences(s, pat)
    IN  IF hits = {} THEN 0
        ELSE CHOOSE i \in hits : \A j \in hits : i <= j

Contains(s, pat) == Occurrences(s, pat) # {}

Count(s, pat) == Cardinality(Occurrences(s, pat))

\* filePath.replace(/\\/g, "/"): every backslash becomes a slash.  The
\* string is mapped half by half.
RECURSIVE normalizePath(_)
normalizePath(filePath) ==
    IF Len(filePath) = 0 THEN ""
    ELSE IF Len(filePath) = 1
         THEN (IF filePath = "\\" THEN "/" ELSE filePath)
         ELSE LET h == Len(filePath) \div 2
              IN  normalizePath(SubSeq(filePath, 1, h))
                  \o normalizePath(SubSeq(filePath, h + 1, Len(filePath)))

\* GetSubstitution of ECMAScript for a string pattern (no capture groups),
\* from one dollar sign to the next: $$ -> $, $& -> the match, $' -> the
\* text after the match; any other $ is literal.  (The fourth pattern, $
\* followed by a grave accent, inserts the text before the match; a TLA+
\* string cannot hold a grave accent, so no modelled input contains one and
\* that branch is never taken.)
RECURSIVE GetSubstitution(_, _, _, _)
GetSubstitution(matched, str, position, replacement) ==
    LET d == indexOf(replacement, "$")
    IN  IF d = 0 \/ d = Len(replacement) THEN replacement
        ELSE LET c == CharAt(replacement, d + 1)
             IN  IF c \in {"$", "&", "'"}
                 THEN SubSeq(replacement, 1, d - 1)
                      \o (CASE c = "$" -> "$"
                            [] c = "&" -> matched
                            [] c = "'" -> SubSeq(str, position + Len(matched),
                                                 Len(str)))
                      \o GetSubstitution(matched, str, position,
                             SubSeq(replacement, d + 2, Len(replacement)))
                 ELSE SubSeq(replacement, 1, d)
                      \o GetSubstitution(matched, str, position,
                             SubSeq(replacement, d + 1, Len(replacement)))

\* String.prototype.replace(searchString, replaceString): only the first
\* occurrence is replaced, and the replacement is expanded.
replace(str, searchValue, replaceValue) ==
    LET pos == indexOf(str, searchValue)
    IN  IF pos = 0 THEN str
        ELSE SubSeq(str, 1, pos - 1)
             \o GetSubstitution(searchValue, str, pos, replaceValue)
             \o SubSeq(str, pos + Len(searchValue), Len(str))

(***************************************************************************)
(* Paths                                                                   *)
(***************************************************************************)
sep(win) == IF win THEN "\\" ELSE "/"

\* process.cwd()
cwd(win) == IF win THEN "C:\\w" ELSE "/w"

\* path.join / path.resolve for segments without separators or dots.
join(win, a, b) == a \o sep(win) \o b

DefaultProjectName == "park-me-app"

\* inquirer's input prompt with a default.
Prompted(typed) == IF typed = "" THEN DefaultProjectName ELSE typed

TargetDirOf(win, name) == join(win, cwd(win), name)

targetDir == TargetDirOf(isWindows, projectName)
appDir    == join(isWindows, targetDir, "app")
dataDir   == join(isWindows, targetDir, "data")

configPath ==
    join(isWindows,
         join(isWindows,
              join(isWindows, join(isWindows, appDir, "src"), "main"),
              "resources"),
         "config.properties")

\* Positions of the separators of p below the working directory.
SepPositions(win, p) ==
    {i \in (Len(cwd(win)) + 1)..Len(p) : CharAt(p, i) = sep(win)}

\* path.dirname
dirname(win, p) ==
    LET last == CHOOSE i \in SepPositions(win, p) :
                    \A j \in SepPositions(win, p) : j <= i
    IN  SubSeq(p, 1, last - 1)

\* p itself and its ancestor directories below the working directory.
Ancestors(win, p) ==
    {SubSeq(p, 1, i - 1) : i \in SepPositions(win, p) \ {Len(cwd(win)) + 1}}
        \cup {p}

\* q is dir or lies inside dir.
Under(win, dir, q) ==
    \/ q = dir
    \/ /\ Len(q) > Len(dir)
       /\ SubSeq(q, 1, Len(dir) + 1) = dir \o sep(win)

(***************************************************************************)
(* File system: a function from absolute paths to entries.  origin tells   *)
(* an entry that was there before the run ("pre") from one the run made.   *)
(***************************************************************************)
DirEntry(o)     == [kind |-> "dir", data |-> "", origin |-> o]
FileEntry(d, o) == [kind |-> "file", data |-> d, origin |-> o]

EmptyFs == [q \in {} |-> DirEntry("pre")]

\* fs.existsSync
existsSync(f, p) == p \in DOMAIN f

\* remove as a non-recursive delete would do it: only the files directly
\* in dir go.
removeShallow(f, win, dir) ==
    [q \in {r \in DOMAIN f :
              ~(Under(win, dir, r) /\ r # dir /\ dirname(win, r) = dir
                /\ f[r].kind = "file")} |-> f[q]]

\* fs.remove: recursive delete.
remove(f, win, dir) ==
    [q \in {r \in DOMAIN f : ~Under(win, dir, r)} |-> f[q]]

\* fs.ensureDir: mkdir -p.
ensureDir(f, win, dir) ==
    [q \in DOMAIN f \cup Ancestors(win, dir) |->
        IF q \in DOMAIN f THEN f[q] ELSE DirEntry("run")]

writeFile(f, p, d) ==
    [q \in DOMAIN f \cup {p} |-> IF q = p THEN FileEntry(d, "run") ELSE f[q]]

\* fs.outputFile: create the parent directories, then write.
outputFile(f, win, p, d) == writeFile(ensureDir(f, win, dirname(win, p)), p, d)

\* A target directory left over from an earlier run.
PopulatedTree(win, name) ==
    LET t == TargetDirOf(win, name)
        d == join(win, t, "data")
    IN  (t :> DirEntry("pre"))
        @@ (join(win, t, "notes.txt") :> FileEntry("old notes", "pre"))
        @@ (d :> DirEntry("pre"))
        @@ (join(win, d, "stale.json") :> FileEntry("old stale", "pre"))
        @@ (join(win, d, "users.json") :> FileEntry("old users", "pre"))

\* What a failed fs.remove may leave: any part of the tree that still has
\* the directory itself and the parents of whatever is left.
PartialRemovals(f, win, dir) ==
    {g \in {[q \in K |-> f[q]] : K \in SUBSET DOMAIN f} :
        /\ dir \in DOMAIN g
        /\ \A q \in DOMAIN f : ~Under(win, dir, q) => q \in DOMAIN g
        /\ \A q \in DOMAIN g :
              Under(win, dir, q) /\ q # dir => dirname(win, q) \in DOMAIN g}

(***************************************************************************)
(* Bundled assets                                                          *)
(***************************************************************************)
\* templates/<file> of the package, by file name.
bundledTemplates ==
    ("users.json" :> "[users]") @@ ("bookings.json" :> "[bookings]")
    @@ ("transactions.json" :> "[transactions]")
    @@ ("parkingSlots.json" :> "[slots]")

\* dataFiles with its last entry forgotten.
dataFilesShort == <<"users.json", "bookings.json", "transactions.json">>

dataFiles ==
    <<"users.json", "bookings.json", "transactions.json", "parkingSlots.json">>

\* copyFile reading the same source for every destination.
copyFileSameSource(f, win, dir, file) ==
    writeFile(f, join(win, dir, file), bundledTemplates["users.json"])

\* fs.copyFile(templates/file, dataDir/file)
copyFile(f, win, dir, file) ==
    writeFile(f, join(win, dir, file), bundledTemplates[file])

\* The first n iterations of the copy loop.
RECURSIVE copyFiles(_, _, _, _)
copyFiles(f, win, dir, n) ==
    IF n = 0 THEN f
    ELSE copyFile(copyFiles(f, win, dir, n - 1), win, dir, dataFiles[n])

UserToken        == "%%user.file.path%%"
BookingToken     == "%%booking.file.path%%"
TransactionToken == "%%transaction.file.path%%"
SlotsToken       == "%%slots.file.path%%"

\* A placeholder the renderer does not know.
UnknownToken == "%%admin.file.path%%"

TemplatePieces ==
    {UserToken, BookingToken, TransactionToken, SlotsToken, UnknownToken}

\* One line of a properties file.
Line(piece) == "k=" \o piece \o "\n"

RECURSIVE TemplatesOfLen(_)
TemplatesOfLen(n) ==
    IF n = 0 THEN {""}
    ELSE {Line(piece) \o t : piece \in TemplatePieces,
                             t \in TemplatesOfLen(n - 1)}

\* A template that holds each of the four placeholders once.
WellFormedTemplate ==
    Line(UserToken) \o Line(BookingToken) \o Line(TransactionToken)
    \o Line(SlotsToken)

\* The contents assets/config.properties.template may have.
ConfigTemplates ==
    {WellFormedTemplate} \cup UNION {TemplatesOfLen(n) : n \in 0..MaxPieces}

\* render with a fifth substitution that blanks a placeholder it does not
\* know.
renderStripsUnknown(tpl, win, dir) ==
    replace(
      replace(
        replace(
          replace(
            replace(tpl, UserToken,
                    normalizePath(join(win, dir, "users.json"))),
            BookingToken, normalizePath(join(win, dir, "bookings.json"))),
          TransactionToken,
          normalizePath(join(win, dir, "transactions.json"))),
        SlotsToken, normalizePath(join(win, dir, "parkingSlots.json"))),
      UnknownToken, "")

\* The chained template.replace(...) calls.
render(tpl, win, dir) ==
    replace(
      replace(
        replace(
          replace(tpl, UserToken, normalizePath(join(win, dir, "users.json"))),
          BookingToken, normalizePath(join(win, dir, "bookings.json"))),
        TransactionToken, normalizePath(join(win, dir, "transactions.json"))),
      SlotsToken, normalizePath(join(win, dir, "parkingSlots.json")))

(***************************************************************************)
(* The pipeline                                                            *)
(***************************************************************************)
Say(lines) == console' = console \o lines

\* process.exit(code): nothing runs afterwards.
Exit(state, code) == pc' = state /\ exitCode' = code

\* What git.clone leaves in the application directory.
cloneTree(f, win, dir) ==
    writeFile(ensureDir(f, win, join(win, dir, ".git")),
              join(win, dir, "pom.xml"), "<project/>")

Init ==
    /\ pc = "Start"
    /\ isWindows \in BOOLEAN
    /\ answer \in ProjectNameInputs
    /\ projectName = ""
    /\ overwrite = "unasked"
    /\ \E exists \in BOOLEAN :
          fs = IF exists THEN PopulatedTree(isWindows, Prompted(answer))
               ELSE EmptyFs
    /\ template = ""
    /\ console = <<>>
    /\ exitCode = 0

\* Lines 48-60: the project-name prompt and the existence test.
Prompt ==
    /\ pc = "Start"
    /\ projectName' = Prompted(answer)
    /\ pc' = IF existsSync(fs, TargetDirOf(isWindows, projectName'))
             THEN "Confirm" ELSE "Clone"
    /\ UNCHANGED <<isWindows, answer, overwrite, fs, template, console,
                   exitCode>>

\* Declined with the test of line 69 after the removal of line 70.
DeclinedAfterRemove ==
    /\ pc = "Confirm"
    /\ overwrite' = "no"
    /\ fs' = remove(fs, isWindows, targetDir)
    /\ Exit("Aborted", 0)
    /\ UNCHANGED <<isWindows, answer, projectName, template, console>>

\* Lines 61-69: the user declines; process.exit(0).
Declined ==
    /\ pc = "Confirm"
    /\ overwrite' = "no"
    /\ Exit("Aborted", 0)
    /\ UNCHANGED <<isWindows, answer, projectName, fs, template, console>>

\* Lines 61-70: the user accepts and the directory is removed.
OverwriteRemoved ==
    /\ pc = "Confirm"
    /\ overwrite' = "yes"
    /\ fs' = remove(fs, isWindows, targetDir)
    /\ pc' = "Clone"
    /\ UNCHANGED <<isWindows, answer, projectName, template, console,
                   exitCode>>

\* Line 70 throws: the rejection leaves the async function unhandled and
\* node ends the process with exit code 1.
OverwriteRemoveFailed ==
    /\ pc = "Confirm"
    /\ overwrite' = "yes"
    /\ fs' \in PartialRemovals(fs, isWindows, targetDir)
    /\ Exit("Crashed", 1)
    /\ UNCHANGED <<isWindows, answer, projectName, template, console>>

\* Lines 34-37.
CloneOK ==
    /\ pc = "Clone"
    /\ fs' = cloneTree(ensureDir(fs, isWindows, appDir), isWindows, appDir)
    /\ Say(<<"Cloning completed.">>)
    /\ pc' = "Data"
    /\ UNCHANGED <<isWindows, answer, projectName, overwrite, template,
                   exitCode>>

\* CloneFailed without the process.exit(1) of line 41.
CloneFailedContinues ==
    /\ pc = "Clone"
    /\ fs' = ensureDir(fs, isWindows, appDir)
    /\ Say(<<"Failed to clone repository.", "Error: git clone">>)
    /\ pc' = "Data"
    /\ UNCHANGED <<isWindows, answer, projectName, overwrite, template,
                   exitCode>>

\* Lines 38-42: ensureDir or git.clone threw.
CloneFailed ==
    /\ pc = "Clone"
    /\ \/ fs' = fs /\ Say(<<"Failed to clone repository.", "Error: mkdir">>)
       \/ /\ fs' = ensureDir(fs, isWindows, appDir)
          /\ Say(<<"Failed to clone repository.", "Error: git clone">>)
    /\ Exit("Failed", 1)
    /\ UNCHANGED <<isWindows, answer, projectName, overwrite, template>>

\* Lines 87-101.
DataOK ==
    /\ pc = "Data"
    /\ fs' = copyFiles(ensureDir(fs, isWindows, dataDir), isWindows, dataDir,
                       Len(dataFiles))
    /\ Say(<<"Data folder and files set up successfully.">>)
    /\ pc' = "Config"
    /\ UNCHANGED <<isWindows, answer, projectName, overwrite, template,
                   exitCode>>

\* Lines 102-106: ensureDir threw, or the copy of file n + 1 did.
DataFailed ==
    /\ pc = "Data"
    /\ \/ fs' = fs
          /\ Say(<<"Failed to set up data folder or copy files.",
                   "Error: mkdir">>)
       \/ \E n \in 0..(Len(dataFiles) - 1) :
            /\ fs' = copyFiles(ensureDir(fs, isWindows, dataDir), isWindows,
                               dataDir, n)
            /\ Say(<<"Failed to set up data folder or copy files.",
                     "Error: copyFile">>)
    /\ Exit("Failed", 1)
    /\ UNCHANGED <<isWindows, answer, projectName, overwrite, template>>

\* Lines 115-142.
RenderOK ==
    /\ pc = "Config"
    /\ \E tpl \in ConfigTemplates :
          /\ template' = tpl
          /\ fs' = outputFile(fs, isWindows, configPath,
                              render(tpl, isWindows, dataDir))
    /\ Say(<<"config.properties created successfully.">>)
    /\ pc' = "Install"
    /\ UNCHANGED <<isWindows, answer, projectName, overwrite, exitCode>>

\* Lines 143-147: readFile or outputFile threw.
RenderFailed ==
    /\ pc = "Config"
    /\ \/ /\ UNCHANGED <<template, fs>>
          /\ Say(<<"Failed to create config.properties.", "Error: readFile">>)
       \/ /\ \E tpl \in ConfigTemplates : template' = tpl
          /\ fs' \in {fs, ensureDir(fs, isWindows,
                                    dirname(isWindows, configPath))}
          /\ Say(<<"Failed to create config.properties.", "Error: outputFile">>)
    /\ Exit("Failed", 1)
    /\ UNCHANGED <<isWindows, answer, projectName, overwrite>>

\* Lines 156-158: npm install in the application directory.
InstallOK ==
    /\ pc = "Install"
    /\ fs' = ensureDir(fs, isWindows, join(isWindows, appDir, "node_modules"))
    /\ Say(<<"Dependencies installed successfully.">>)
    /\ pc' = "Tomcat"
    /\ UNCHANGED <<isWindows, answer, projectName, overwrite, template,
                   exitCode>>

\* InstallFailed that removes what the run produced before exiting.
InstallFailedCleansUp ==
    /\ pc = "Install"
    /\ fs' = remove(fs, isWindows, targetDir)
    /\ Say(<<"Failed to install dependencies.", "Error: npm install">>)
    /\ Exit("Failed", 1)
    /\ UNCHANGED <<isWindows, answer, projectName, overwrite, template>>

\* Lines 159-163: npm install exited non-zero.
InstallFailed ==
    /\ pc = "Install"
    /\ fs' \in {fs, ensureDir(fs, isWindows,
                              join(isWindows, appDir, "node_modules"))}
    /\ Say(<<"Failed to install dependencies.", "Error: npm install">>)
    /\ Exit("Failed", 1)
    /\ UNCHANGED <<isWindows, answer, projectName, overwrite, template>>

\* Lines 172-176 and 186-195: the version command (catalina.bat version on
\* win32, catalina version elsewhere) ran; the function returns.
TomcatFound ==
    /\ pc = "Tomcat"
    /\ Say(<<"Tomcat is installed.", "Setup completed successfully!">>)
    /\ Exit("Done", 0)
    /\ UNCHANGED <<isWindows, answer, projectName, overwrite, fs, template>>

\* TomcatMissing with the catch block ending the process like the others.
TomcatMissingFatal ==
    /\ pc = "Tomcat"
    /\ Say(<<"Tomcat is not installed.",
             "Please install Tomcat to run the application.",
             "https://tomcat.apache.org/download-90.cgi">>)
    /\ Exit("Failed", 1)
    /\ UNCHANGED <<isWindows, answer, projectName, overwrite, fs, template>>

\* Lines 177-195: the version command failed; warn and carry on.
TomcatMissing ==
    /\ pc = "Tomcat"
    /\ Say(<<"Tomcat is not installed.",
             "Please install Tomcat to run the application.",
             "https://tomcat.apache.org/download-90.cgi",
             "Setup completed successfully!">>)
    /\ Exit("Done", 0)
    /\ UNCHANGED <<isWindows, answer, projectName, overwrite, fs, template>>

Next ==
    \/ Prompt
    \/ Declined
    \/ OverwriteRemoved
    \/ OverwriteRemoveFailed
    \/ CloneOK
    \/ CloneFailed
    \/ DataOK
    \/ DataFailed
    \/ RenderOK
    \/ RenderFailed
    \/ InstallOK
    \/ InstallFailed
    \/ TomcatFound
    \/ TomcatMissing

Spec == Init /\ [][Next]_vars

(***************************************************************************)
(* Properties                                                              *)
(***************************************************************************)
Said(m) == \E i \in DOMAIN console : console[i] = m

DataFileNames ==
    {"users.json", "bookings.json", "transactions.json", "parkingSlots.json"}

KnownTokens == {UserToken, BookingToken, TransactionToken, SlotsToken}

DataPath(file) == join(isWindows, dataDir, file)

nodeModules == join(isWindows, appDir, "node_modules")

\* The file names directly or indirectly inside the data directory.
DataDirContents ==
    {q \in DOMAIN fs : Under(isWindows, dataDir, q) /\ q # dataDir}

PreEntries ==
    {q \in DOMAIN fs : Under(isWindows, targetDir, q) /\ fs[q].origin = "pre"}

RunEntries ==
    {q \in DOMAIN fs : Under(isWindows, targetDir, q) /\ fs[q].origin = "run"}

Rendered == configPath \in DOMAIN fs /\ fs[configPath].origin = "run"

\* C1: a failure of clone, data provisioning, config rendering or install
\* ends the run in Failed with a non-zero exit code, nothing of a later step
\* has happened or happens afterwards, and a clone failure leaves the data
\* directory and the config file unwritten.
C1_FailedStepState ==
    /\ \A m \in {"Failed to clone repository.",
                 "Failed to set up data folder or copy files.",
                 "Failed to create config.properties.",
                 "Failed to install dependencies."} :
          Said(m) => pc = "Failed" /\ exitCode # 0
    /\ Said("Failed to clone repository.") =>
          /\ dataDir \notin DOMAIN fs
          /\ DataDirContents = {}
          /\ configPath \notin DOMAIN fs
          /\ nodeModules \notin DOMAIN fs
    /\ Said("Failed to set up data folder or copy files.") =>
          /\ configPath \notin DOMAIN fs
          /\ nodeModules \notin DOMAIN fs
    /\ Said("Failed to create config.properties.") =>
          /\ configPath \notin DOMAIN fs
          /\ nodeModules \notin DOMAIN fs
    /\ Said("Failed to install dependencies.") =>
          /\ ~Said("Tomcat is installed.")
          /\ ~Said("Tomcat is not installed.")

C1_FailStops ==
    /\ []C1_FailedStepState
    /\ [][pc = "Failed" => UNCHANGED <<fs, console, exitCode>>]_vars

C1_Witness ==
    /\ pc = "Failed"
    /\ Said("Failed to clone repository.")
    /\ Said("Error: git clone")
    /\ appDir \in DOMAIN fs

\* C2: when the target directory exists and the user declines, the run ends
\* with exit code 0 and the file system is what it was at the start.
C2_DeclineLeavesAll ==
    overwrite = "no" =>
        /\ pc = "Aborted"
        /\ exitCode = 0
        /\ fs = PopulatedTree(isWindows, projectName)
        /\ console = <<>>

C2_Witness ==
    /\ pc = "Aborted"
    /\ overwrite = "no"
    /\ existsSync(fs, join(isWindows, dataDir, "stale.json"))

\* C3: when the user accepts the overwrite, nothing the run writes ever
\* coexists with an entry the target directory had before, and nothing from
\* before is left once the run goes on.
C3_RemovedBeforeWrite ==
    overwrite = "yes" =>
        /\ PreEntries = {} \/ RunEntries = {}
        /\ pc # "Crashed" => PreEntries = {}

C3_Witness ==
    /\ overwrite = "yes"
    /\ pc = "Done"
    /\ DataPath("users.json") \in DOMAIN fs
    /\ fs[DataPath("users.json")].origin = "run"

\* C4: at Done the data directory holds exactly the four data files, each
\* with the content of its bundled template.
C4_DataDirExact ==
    pc = "Done" =>
        /\ dataDir \in DOMAIN fs
        /\ DataDirContents = {DataPath(file) : file \in DataFileNames}
        /\ \A file \in DataFileNames :
              /\ fs[DataPath(file)].kind = "file"
              /\ fs[DataPath(file)].data = bundledTemplates[file]

C4_Witness ==
    /\ pc = "Done"
    /\ overwrite = "yes"
    /\ DataPath("parkingSlots.json") \in DOMAIN fs

\* Each known placeholder occurs exactly once in tpl.
EachTokenOnce(tpl) == \A tok \in KnownTokens : Count(tpl, tok) = 1

\* C5: the rendered config holds none of the four placeholders and holds the
\* forward-slash-normalized paths of the four data files.  Stated for the
\* templates that hold each placeholder once.
C5_NoTokenLeft ==
    (pc = "Install" /\ EachTokenOnce(template)) =>
        LET out == fs[configPath].data
        IN  /\ \A tok \in KnownTokens : ~Contains(out, tok)
            /\ \A file \in DataFileNames :
                  Contains(out, normalizePath(DataPath(file)))

\* The template with the first occurrence of each known placeholder replaced
\* by the literal normalized path of its data file, in one left-to-right pass.
TokenFile ==
    (UserToken :> "users.json") @@ (BookingToken :> "bookings.json")
    @@ (TransactionToken :> "transactions.json")
    @@ (SlotsToken :> "parkingSlots.json")

RECURSIVE Substituted(_, _, _)
Substituted(tpl, from, done) ==
    LET first(tok) == indexOf(tpl, tok)
        cands == {tok \in KnownTokens \ done : first(tok) >= from}
    IN  IF cands = {} THEN SubSeq(tpl, from, Len(tpl))
        ELSE LET tok == CHOOSE t \in cands :
                            \A u \in cands : first(t) <= first(u)
             IN  SubSeq(tpl, from, first(tok) - 1)
                 \o normalizePath(DataPath(TokenFile[tok]))
                 \o Substituted(tpl, first(tok) + Len(tok), done \cup {tok})

\* C6: the rendered config is the template with each placeholder replaced by
\* the normalized path of its own data file, wherever the placeholders stand,
\* and no inserted path is touched by a later substitution.
C6_IndependentSubstitution ==
    pc = "Install" => fs[configPath].data = Substituted(template, 1, {})

\* C7: whatever the Tomcat check finds, the run goes to Done with exit code
\* 0; a missing Tomcat only prints the warning and the download link.
C7_DoneState ==
    /\ pc = "Done" => exitCode = 0
    /\ \A m \in {"Tomcat is installed.", "Tomcat is not installed."} :
          Said(m) => pc = "Done" /\ exitCode = 0
    /\ Said("Tomcat is not installed.") =>
          /\ Said("Please install Tomcat to run the application.")
          /\ Said("https://tomcat.apache.org/download-90.cgi")
          /\ Said("Setup completed successfully!")

C7_TomcatAdvisory ==
    /\ []C7_DoneState
    /\ [][pc = "Tomcat" => pc' = "Done" /\ exitCode' = 0 /\ fs' = fs]_vars

C7_Witness ==
    /\ pc = "Done"
    /\ Said("Tomcat is not installed.")

\* C8: whenever the rendered config file is there, the data directory and
\* its four files are there too.
C8_ConfigAfterData ==
    Rendered =>
        /\ dataDir \in DOMAIN fs
        /\ \A file \in DataFileNames : DataPath(file) \in DOMAIN fs

C8_Witness ==
    /\ pc = "Install"
    /\ Rendered

\* C9: a template without one of the placeholders, or with an unknown one,
\* renders without error: a template with no known placeholder is written
\* as it is, the path of an absent placeholder is not inserted, an unknown
\* placeholder stays, and the config step fails only on a read or write
\* error, otherwise it reaches the install step.
C9_AbsentAndUnknown ==
    /\ pc = "Install" =>
          LET out == fs[configPath].data
          IN  /\ (\A tok \in KnownTokens : ~Contains(template, tok))
                    => out = template
              /\ \A tok \in KnownTokens :
                    ~Contains(template, tok) =>
                        ~Contains(out, normalizePath(DataPath(TokenFile[tok])))
              /\ Count(out, UnknownToken) >= Count(template, UnknownToken)
    /\ Said("Failed to create config.properties.") =>
          Said("Error: readFile") \/ Said("Error: outputFile")

C9_Witness ==
    /\ pc = "Install"
    /\ Contains(template, UnknownToken)
    /\ Contains(template, UserToken)
    /\ ~Contains(template, SlotsToken)
    /\ Rendered

\* C10: a failing step removes nothing: every entry of the file system is
\* still there, unchanged, when the run has failed, and after a failed
\* install the clone, the four data files and the rendered config are on
\* disk.
C10_FailedInstallState ==
    Said("Failed to install dependencies.") =>
        /\ join(isWindows, appDir, "pom.xml") \in DOMAIN fs
        /\ \A file \in DataFileNames :
              /\ DataPath(file) \in DOMAIN fs
              /\ fs[DataPath(file)].data = bundledTemplates[file]
        /\ Rendered

C10_NoRollback ==
    /\ []C10_FailedInstallState
    /\ [][pc' = "Failed" =>
            \A q \in DOMAIN fs : q \in DOMAIN fs' /\ fs'[q] = fs[q]]_vars

C10_Witness ==
    /\ pc = "Failed"
    /\ Said("Failed to install dependencies.")
    /\ Rendered

====
